---- MODULE Spec2Model ----
(***************************************************************************)
(* Model of SmartWeightDistributor (src/xl.py): detection of the weight    *)
(* column, column shifting / container selection, and the per-row weight   *)
(* distribution loop of process_dataframe.                                 *)
(*                                                                         *)
(* A table (pandas DataFrame) is a sequence of columns, each a record      *)
(* [label, cells]; cells is the sequence of the column's values in row     *)
(* order.  Numbers are fixed-point, in hundredths (5 stands for 0.05), so  *)
(* that round(x, 2) is a rounding to an integer number of hundredths.      *)
(***************************************************************************)
EXTENDS Integers, Sequences, FiniteSets

VARIABLES df, user_defined_containers, pc, weight_column, weight_count,
          processed_df, final_weight_column, container_columns,
          i, processed_rows, raised

vars == <<df, user_defined_containers, pc, weight_column, weight_count,
          processed_df, final_weight_column, container_columns,
          i, processed_rows, raised>>

(* ---------------------------- bounds ----------------------------------- *)
MaxCols == 3
MaxRows == 2
MaxCells == 6
MaxContainers == 2

(* ---------------------------- cell values ------------------------------ *)
NaN == [k |-> "nan", v |-> 0]
Text == [k |-> "text", v |-> 0]
Num(x) == [k |-> "num", v |-> x]

\* the weights a cell may hold, in hundredths: negative, zero, positive
Weights == {-1, 0, 5}

Cells == {NaN, Text} \cup {Num(w) : w \in Weights}

(* ---------------------------- column labels ---------------------------- *)
NoLabel == [kind |-> "None", idx |-> 0]
OrigLabel(p) == [kind |-> "Orig", idx |-> p]
ContainerLabel(n) == [kind |-> "Container", idx |-> n]
ColumnLabel(n) == [kind |-> "Column", idx |-> n]

Labels(table) == [p \in 1..Len(table) |-> table[p].label]

NumRows(table) == IF Len(table) = 0 THEN 0 ELSE Len(table[1].cells)

\* list(df.columns).index(label), zero-based: the first position holding label
ColumnIndex(table, label) ==
    (CHOOSE p \in 1..Len(table) :
        /\ table[p].label = label
        /\ \A q \in 1..(p - 1) : table[q].label # label) - 1

\* df[label]: the cells of the column the label resolves to
ColumnCells(table, label) == table[ColumnIndex(table, label) + 1].cells

(* ---------------------------- find_weight_column ----------------------- *)
\* pd.to_numeric(cell, errors='coerce') is not NaN
IsNumeric(cell) == cell.k = "num"

numeric_count(col) == Cardinality({r \in 1..Len(col.cells) : IsNumeric(col.cells[r])})

\* variant: a later column with an equal count replaces the earlier one
RECURSIVE find_weight_loop_LastWins(_, _, _, _)
find_weight_loop_LastWins(table, p, best, max_numbers) ==
    IF p > Len(table) THEN <<best, max_numbers>>
    ELSE IF numeric_count(table[p]) >= max_numbers /\ numeric_count(table[p]) > 0
         THEN find_weight_loop_LastWins(table, p + 1, table[p].label,
                                        numeric_count(table[p]))
         ELSE find_weight_loop_LastWins(table, p + 1, best, max_numbers)

RECURSIVE find_weight_loop(_, _, _, _)
find_weight_loop(table, p, best, max_numbers) ==
    IF p > Len(table) THEN <<best, max_numbers>>
    ELSE IF numeric_count(table[p]) > max_numbers
         THEN find_weight_loop(table, p + 1, table[p].label, numeric_count(table[p]))
         ELSE find_weight_loop(table, p + 1, best, max_numbers)

find_weight_column(table) == find_weight_loop(table, 1, NoLabel, 0)

(* ---------------------------- shift_columns_and_create_containers ------ *)
\* new_columns[key] = values on an insertion-ordered dict: an existing key
\* keeps its position and takes the new values, a new key is appended
RECURSIVE DictSet(_, _, _)
DictSet(d, key, values) ==
    IF \E p \in 1..Len(d) : d[p].label = key
    THEN [p \in 1..Len(d) |-> IF d[p].label = key
                               THEN [label |-> key, cells |-> values]
                               ELSE d[p]]
    ELSE Append(d, [label |-> key, cells |-> values])

\* for i in range(n): new_columns[f'Container_{i+1}'] = [0.0] * len(df)
RECURSIVE AddContainers(_, _, _, _)
AddContainers(d, k, n, rows) ==
    IF k >= n THEN d
    ELSE AddContainers(DictSet(d, ContainerLabel(k + 1), [r \in 1..rows |-> Num(0)]),
                       k + 1, n, rows)

\* variant: the original columns keep their position as label
RECURSIVE AddShifted_Unshifted(_, _, _, _)
AddShifted_Unshifted(d, k, table, shift) ==
    IF k >= Len(table) THEN d
    ELSE AddShifted_Unshifted(DictSet(d, ColumnLabel(k),
                                      ColumnCells(table, table[k + 1].label)),
                              k + 1, table, shift)

\* for i, col in enumerate(df.columns):
\*     new_columns[f'Column_{i + shift_amount}'] = df[col].values
RECURSIVE AddShifted(_, _, _, _)
AddShifted(d, k, table, shift) ==
    IF k >= Len(table) THEN d
    ELSE AddShifted(DictSet(d, ColumnLabel(k + shift),
                            ColumnCells(table, table[k + 1].label)),
                    k + 1, table, shift)

NeedsShift(table, wcol, n) == ColumnIndex(table, wcol) < n

\* variant: the shift is the container count, whatever the weight position
shift_amount_ByCount(table, wcol, n) == n

shift_amount(table, wcol, n) == n - ColumnIndex(table, wcol)

\* variant: the no-shift container list runs through the weight column
shift_columns_and_create_containers_Inclusive(table, wcol, n) ==
    IF NeedsShift(table, wcol, n)
    THEN [new_df |-> AddShifted(AddContainers(<<>>, 0, n, NumRows(table)),
                                0, table, shift_amount(table, wcol, n)),
          weight |-> ColumnLabel(ColumnIndex(table, wcol) + shift_amount(table, wcol, n)),
          containers |-> [k \in 1..n |-> ContainerLabel(k)]]
    ELSE [new_df |-> table,
          weight |-> wcol,
          containers |-> SubSeq(Labels(table), 1, ColumnIndex(table, wcol) + 1)]

\* the three values returned, as a record
shift_columns_and_create_containers(table, wcol, n) ==
    IF NeedsShift(table, wcol, n)
    THEN [new_df |-> AddShifted(AddContainers(<<>>, 0, n, NumRows(table)),
                                0, table, shift_amount(table, wcol, n)),
          weight |-> ColumnLabel(ColumnIndex(table, wcol) + shift_amount(table, wcol, n)),
          containers |-> [k \in 1..n |-> ContainerLabel(k)]]
    ELSE [new_df |-> table,
          weight |-> wcol,
          containers |-> SubSeq(Labels(table), 1, ColumnIndex(table, wcol))]

(* ---------------------------- distribute_weight ------------------------ *)
\* (W, n) with W / n exactly halfway between two hundredths for which
\* CPython's round(W / 100 / n, 2) gives the upper one (the outcome follows
\* the binary value of the quotient)
HalfRoundsUp == {<<1, 2>>, <<5, 2>>, <<7, 2>>, <<2, 4>>, <<10, 4>>, <<3, 6>>, <<4, 8>>}

\* round(weight / num_containers, 2) for weight > 0, num_containers > 0
Round2(weight, num_containers) ==
    LET q == weight \div num_containers
        rem == weight % num_containers
    IN  IF 2 * rem < num_containers THEN q
        ELSE IF 2 * rem > num_containers THEN q + 1
        ELSE IF <<weight, num_containers>> \in HalfRoundsUp THEN q + 1 ELSE q

\* pd.notna(weight) and weight > 0; a text cell makes the comparison raise
WeightIsText(cell) == cell.k = "text"
WeightIsPositive(cell) == cell.k = "num" /\ cell.v > 0

\* the list returned; the division raises when num_containers = 0
distribute_weight(cell, num_containers) ==
    IF cell.k = "nan" \/ cell.v <= 0
    THEN [j \in 1..num_containers |-> 0]
    ELSE [j \in 1..num_containers |-> Round2(cell.v, num_containers)]

\* position j (one-based) of label in the container list, 0 when absent;
\* the last occurrence wins, as the last write to a cell does
LastPos(seq, label) ==
    IF \E j \in 1..Len(seq) : seq[j] = label
    THEN CHOOSE j \in 1..Len(seq) :
            seq[j] = label /\ \A j2 \in (j + 1)..Len(seq) : seq[j2] # label
    ELSE 0

\* for j, container_col in enumerate(container_columns):
\*     processed_df.at[i, container_col] = distribution[j]      (row zero-based)
WriteRow(table, row, containers, distribution) ==
    [p \in 1..Len(table) |->
        IF LastPos(containers, table[p].label) > 0
        THEN [table[p] EXCEPT !.cells[row + 1] =
                  Num(distribution[LastPos(containers, table[p].label)])]
        ELSE table[p]]

(* ---------------------------- process_dataframe ------------------------ *)
\* the table read from the uploaded file: labels are the original ones
MakeTable(cs) == [p \in 1..Len(cs) |-> [label |-> OrigLabel(p - 1), cells |-> cs[p]]]

Init ==
    /\ \E c \in 1..MaxCols, r \in 0..MaxRows :
          /\ c * r <= MaxCells
          /\ \E cs \in [1..c -> [1..r -> Cells]] : df = MakeTable(cs)
    /\ user_defined_containers \in 0..MaxContainers
    /\ pc = "start"
    /\ weight_column = NoLabel
    /\ weight_count = 0
    /\ processed_df = <<>>
    /\ final_weight_column = NoLabel
    /\ container_columns = <<>>
    /\ i = 0
    /\ processed_rows = 0
    /\ raised = "none"

\* weight_column, weight_count = self.find_weight_column(df), a column found
Detect ==
    /\ pc = "start"
    /\ find_weight_column(df)[1] # NoLabel
    /\ weight_column' = find_weight_column(df)[1]
    /\ weight_count' = find_weight_column(df)[2]
    /\ pc' = "detected"
    /\ UNCHANGED <<df, user_defined_containers, processed_df, final_weight_column,
                   container_columns, i, processed_rows, raised>>

\* if weight_column is None: st.error(...); return None
DetectNone ==
    /\ pc = "start"
    /\ find_weight_column(df)[1] = NoLabel
    /\ weight_column' = NoLabel
    /\ weight_count' = find_weight_column(df)[2]
    /\ pc' = "no_weight"
    /\ UNCHANGED <<df, user_defined_containers, processed_df, final_weight_column,
                   container_columns, i, processed_rows, raised>>

Reshape ==
    /\ pc = "detected"
    /\ LET res == shift_columns_and_create_containers(df, weight_column,
                                                      user_defined_containers)
       IN  /\ processed_df' = res.new_df
           /\ final_weight_column' = res.weight
           /\ container_columns' = res.containers
    /\ i' = 0
    /\ processed_rows' = 0
    /\ pc' = "distribute"
    /\ UNCHANGED <<df, user_defined_containers, weight_column, weight_count, raised>>

\* if weight_col_index < user_defined_containers: ... (lines 27-50)
ReshapeShift ==
    /\ pc = "detected"
    /\ NeedsShift(df, weight_column, user_defined_containers)
    /\ Reshape

\* else: ... (lines 51-54)
ReshapeNoShift ==
    /\ pc = "detected"
    /\ ~NeedsShift(df, weight_column, user_defined_containers)
    /\ Reshape

CurrentWeight == ColumnCells(processed_df, final_weight_column)[i + 1]

InLoop == pc = "distribute" /\ i < NumRows(processed_df)

\* a row with a positive weight and at least one container
DistributeRow ==
    /\ InLoop
    /\ ~WeightIsText(CurrentWeight)
    /\ WeightIsPositive(CurrentWeight)
    /\ Len(container_columns) > 0
    /\ processed_df' = WriteRow(processed_df, i, container_columns,
                                distribute_weight(CurrentWeight, Len(container_columns)))
    /\ processed_rows' = processed_rows + 1
    /\ i' = i + 1
    /\ UNCHANGED <<df, user_defined_containers, pc, weight_column, weight_count,
                   final_weight_column, container_columns, raised>>

\* a row whose weight is missing, zero or negative: nothing is written
SkipRow ==
    /\ InLoop
    /\ ~WeightIsText(CurrentWeight)
    /\ ~WeightIsPositive(CurrentWeight)
    /\ i' = i + 1
    /\ UNCHANGED <<df, user_defined_containers, pc, weight_column, weight_count,
                   processed_df, final_weight_column, container_columns,
                   processed_rows, raised>>

\* weight > 0 on a str: TypeError leaves process_dataframe
RaiseTypeError ==
    /\ InLoop
    /\ WeightIsText(CurrentWeight)
    /\ pc' = "raised"
    /\ raised' = "TypeError"
    /\ UNCHANGED <<df, user_defined_containers, weight_column, weight_count,
                   processed_df, final_weight_column, container_columns,
                   i, processed_rows>>

\* weight / num_containers with no container: ZeroDivisionError
RaiseZeroDivision ==
    /\ InLoop
    /\ ~WeightIsText(CurrentWeight)
    /\ WeightIsPositive(CurrentWeight)
    /\ Len(container_columns) = 0
    /\ pc' = "raised"
    /\ raised' = "ZeroDivisionError"
    /\ UNCHANGED <<df, user_defined_containers, weight_column, weight_count,
                   processed_df, final_weight_column, container_columns,
                   i, processed_rows>>

\* st.success(...); return processed_df, final_weight_column, container_columns
Return ==
    /\ pc = "distribute"
    /\ i >= NumRows(processed_df)
    /\ pc' = "done"
    /\ UNCHANGED <<df, user_defined_containers, weight_column, weight_count,
                   processed_df, final_weight_column, container_columns,
                   i, processed_rows, raised>>

Next ==
    \/ Detect
    \/ DetectNone
    \/ ReshapeShift
    \/ ReshapeNoShift
    \/ DistributeRow
    \/ SkipRow
    \/ RaiseTypeError
    \/ RaiseZeroDivision
    \/ Return

Spec == Init /\ [][Next]_vars

TypeOK ==
    /\ pc \in {"start", "detected", "no_weight", "distribute", "done", "raised"}
    /\ raised \in {"none", "TypeError", "ZeroDivisionError"}
    /\ i \in 0..MaxRows
    /\ processed_rows \in 0..MaxRows

(* ---------------------------- properties ------------------------------- *)
\* the reshape step has returned
Reshaped == pc \in {"distribute", "done", "raised"}

\* zero-based position of the detected weight column in the input table
weight_col_index == ColumnIndex(df, weight_column)

ShiftCase == Reshaped /\ NeedsShift(df, weight_column, user_defined_containers)
NoShiftCase == Reshaped /\ ~NeedsShift(df, weight_column, user_defined_containers)

ContainerSet == {container_columns[j] : j \in 1..Len(container_columns)}

\* the cell of the input table's weight column in row r (one-based)
OrigWeight(r) == ColumnCells(df, weight_column)[r]

RowIds == 1..NumRows(df)

RECURSIVE RowSum(_, _, _)
RowSum(labels, r, j) ==
    IF j > Len(labels) THEN 0
    ELSE ColumnCells(processed_df, labels[j])[r].v + RowSum(labels, r, j + 1)

\* C1: in the no-shift case with containerCount >= 1 the container columns
\* are exactly the first containerCount columns, and every column at a
\* position p with containerCount <= p < weightIndex keeps its original cells
C1_NoShiftFirstN ==
    (NoShiftCase /\ user_defined_containers >= 1) =>
        /\ container_columns = SubSeq(Labels(df), 1, user_defined_containers)
        /\ \A p \in user_defined_containers..(weight_col_index - 1) :
              processed_df[p + 1].cells = df[p + 1].cells

\* C2: when the pipeline has finished, every row with a positive weight w
\* holds round(w / containerCount, 2), containerCount the configured count,
\* in every container column
C2_ShareByConfiguredCount ==
    (pc = "done" /\ user_defined_containers >= 1) =>
        \A r \in RowIds : WeightIsPositive(OrigWeight(r)) =>
            \A c \in ContainerSet :
                ColumnCells(processed_df, c)[r] =
                    Num(Round2(OrigWeight(r).v, user_defined_containers))

\* C3: when the pipeline has finished, every row whose weight is missing,
\* zero or negative has 0 in every container column, and processed_rows is
\* the number of rows with a positive weight
C3_NonPositiveRowsZero ==
    (pc = "done" /\ user_defined_containers >= 1) =>
        /\ \A r \in RowIds : ~WeightIsPositive(OrigWeight(r)) =>
              \A c \in ContainerSet : ColumnCells(processed_df, c)[r] = Num(0)
        /\ processed_rows = Cardinality({r \in RowIds : WeightIsPositive(OrigWeight(r))})

\* C4: in the shift case the reshaped table has c + containerCount columns;
\* the first containerCount are the new container columns, 0.0 in every row
\* when reshape returns; original column i follows at position
\* containerCount + i, cells unchanged, labelled Column_<i + shiftAmount>
C4_ShiftLayout ==
    ShiftCase =>
        LET n == user_defined_containers
            shift == n - weight_col_index
        IN  /\ Len(processed_df) = Len(df) + n
            /\ \A k \in 1..n :
                  /\ processed_df[k].label = ContainerLabel(k)
                  /\ Len(processed_df[k].cells) = NumRows(df)
                  /\ (pc = "distribute" /\ i = 0) =>
                        \A r \in RowIds : processed_df[k].cells[r] = Num(0)
            /\ \A p \in 0..(Len(df) - 1) :
                  /\ processed_df[n + p + 1].label = ColumnLabel(p + shift)
                  /\ processed_df[n + p + 1].cells = df[p + 1].cells

C4_Witness ==
    /\ ShiftCase /\ pc = "distribute" /\ i = 0
    /\ Len(df) = 3 /\ NumRows(df) = 2
    /\ weight_col_index = 1
    /\ user_defined_containers = 2
    /\ \E r \in RowIds : df[1].cells[r] = Text

\* C5 as stated: in the shift case the weight column of the reshaped table
\* is at zero-based position containerCount and the returned identifier is
\* Column_<containerCount>
C5_WeightAtContainerCount ==
    ShiftCase =>
        /\ final_weight_column = ColumnLabel(user_defined_containers)
        /\ ColumnIndex(processed_df, final_weight_column) = user_defined_containers

\* C5 amended: in the shift case the returned identifier is
\* Column_<containerCount>, and it resolves to zero-based position
\* containerCount + weightIndex of the reshaped table, which holds the
\* original weight column's cells
C5_WeightLabelAndPosition ==
    ShiftCase =>
        /\ final_weight_column = ColumnLabel(user_defined_containers)
        /\ ColumnIndex(processed_df, final_weight_column) =
              user_defined_containers + weight_col_index
        /\ ColumnCells(processed_df, final_weight_column) = ColumnCells(df, weight_column)

C5_Witness ==
    /\ ShiftCase
    /\ Len(df) = 3
    /\ weight_col_index = 1
    /\ user_defined_containers = 2
    /\ ColumnIndex(processed_df, final_weight_column) = 3

\* C6: find_weight_column returns the leftmost column whose numeric count is
\* the maximum over all columns, with that count; it returns no column, with
\* count 0, exactly when no column has a numeric cell, and then the pipeline
\* stops without a reshaped table
MaxNumericCount ==
    CHOOSE m \in 0..NumRows(df) :
        /\ \A p \in 1..Len(df) : numeric_count(df[p]) <= m
        /\ m = 0 \/ \E p \in 1..Len(df) : numeric_count(df[p]) = m

C6_LeftmostMaximum ==
    (pc # "start") =>
        /\ weight_count = MaxNumericCount
        /\ (weight_column = NoLabel) <=> (MaxNumericCount = 0)
        /\ (weight_column # NoLabel) =>
              /\ numeric_count(df[weight_col_index + 1]) = MaxNumericCount
              /\ \A q \in 1..weight_col_index : numeric_count(df[q]) < MaxNumericCount
        /\ (weight_column = NoLabel) <=> (pc = "no_weight")
        /\ (pc = "no_weight") =>
              /\ processed_df = <<>>
              /\ container_columns = <<>>
              /\ final_weight_column = NoLabel

C6_Witness ==
    /\ pc = "detected"
    /\ Len(df) = 3
    /\ weight_col_index = 1
    /\ numeric_count(df[1]) = 0
    /\ numeric_count(df[2]) = 1
    /\ numeric_count(df[3]) = 1

\* C7: with containerCount < 1 the pipeline ends in a configuration error
\* before any table is built or any cell is written: it never reaches the
\* distribution loop, never returns a table and never raises a division by
\* zero
C7_InvalidContainerCount ==
    (user_defined_containers < 1) =>
        /\ ~Reshaped
        /\ processed_df = <<>>
        /\ raised # "ZeroDivisionError"

\* C8: when the pipeline has finished, for every row with a positive weight
\* w and configured containerCount n the sum of the row over the returned
\* container columns is n * round(w / n, 2) and differs from w by at most
\* n * 0.005 (half a hundredth per container)
Abs(x) == IF x < 0 THEN -x ELSE x

C8_Conservation ==
    (pc = "done" /\ user_defined_containers >= 1) =>
        \A r \in RowIds : WeightIsPositive(OrigWeight(r)) =>
            LET n == user_defined_containers
                w == OrigWeight(r).v
                sum == RowSum(container_columns, r, 1)
            IN  /\ sum = n * Round2(w, n)
                /\ 2 * Abs(sum - w) <= n

\* C9: with a non-empty container list the distribution loop never raises,
\* whatever mix of numeric, missing and text cells the weight column holds
C9_NoFailurePath ==
    (Reshaped /\ Len(container_columns) > 0) => pc # "raised"

\* C10: with containerCount >= 1 the returned weight identifier is not a
\* container column and resolves to the original weight cells; distribution
\* writes container cells only, so the weight column and every column
\* positioned after it keep their original cells
C10_WeightAndLaterColumnsKept ==
    (Reshaped /\ user_defined_containers >= 1) =>
        LET wpos == ColumnIndex(processed_df, final_weight_column)
            added == Len(processed_df) - Len(df)
        IN  /\ final_weight_column \notin ContainerSet
            /\ \E p \in 1..Len(processed_df) : processed_df[p].label = final_weight_column
            /\ ColumnCells(processed_df, final_weight_column) = ColumnCells(df, weight_column)
            /\ wpos = weight_col_index + added
            /\ \A p \in (wpos + 1)..Len(processed_df) :
                  processed_df[p].cells = df[p - added].cells

C10_Witness ==
    /\ pc = "done"
    /\ user_defined_containers >= 1
    /\ processed_rows = 2
    /\ Len(container_columns) >= 1
    /\ ColumnIndex(processed_df, final_weight_column) + 1 < Len(processed_df)
    /\ NoShiftCase
====
